---- MODULE Spec2Model ----
(***************************************************************************)
(* Model of src/src/index.ts: the recursive markdown scanner               *)
(* (findMarkdownRecursive) and the assembling pass of run().               *)
(*                                                                         *)
(* Strings are sequences of one-character strings, so that the textual     *)
(* operations of the code (startsWith, endsWith, toLowerCase, split,       *)
(* dirname, localeCompare) are computed character by character.            *)
(***************************************************************************)
EXTENDS Naturals, Integers, Sequences, FiniteSets

\* ------------------------------------------------------------------ bounds
MaxDepth == 3   \* deepest nesting of directories below the scan root
MaxNodes == 4   \* most directory entries (dirents) in a file-system snapshot
MaxArgs == 2    \* most command-line arguments tried

\* ------------------------------------------------------- configuration
OUTPUT_FILENAME == "concatenated_output.md"
DIR_HEADER_PREFIX == "# Directory:"
FILE_HEADER_PREFIX == "## File:"
\* The other fragments run() pushes: a file's content, the placeholder of an
\* unreadable file, and the separator "\n\n---\n\n".
CONTENT == "content"
ERROR_READING == "*Error reading file*"
SEPARATOR == "---"

\* ------------------------------------------------------------ characters
Sep == "/"
Dot == <<".">>
MdExt == <<".", "m", "d">>

\* UTF-16 code unit of the characters used in names.
CodeUnit(c) ==
  CASE c = "." -> 46 [] c = "/" -> 47
    [] c = "B" -> 66 [] c = "D" -> 68 [] c = "M" -> 77
    [] c = "a" -> 97 [] c = "b" -> 98 [] c = "d" -> 100
    [] c = "m" -> 109 [] c = "n" -> 110 [] c = "t" -> 116 [] c = "x" -> 120

IsUpper(c) == CodeUnit(c) >= 65 /\ CodeUnit(c) <= 90

\* String.prototype.toLowerCase on one character.
LowerChar(c) ==
  CASE c = "B" -> "b" [] c = "D" -> "d" [] c = "M" -> "m" [] OTHER -> c

ToLowerCase(s) == [i \in 1..Len(s) |-> LowerChar(s[i])]

StartsWith(s, prefix) ==
  /\ Len(prefix) <= Len(s)
  /\ SubSeq(s, 1, Len(prefix)) = prefix

EndsWith(s, suffix) ==
  /\ Len(suffix) <= Len(s)
  /\ SubSeq(s, Len(s) - Len(suffix) + 1, Len(s)) = suffix

\* Lexicographic comparison of two sequences of numbers: -1, 0 or 1.
RECURSIVE SeqCompare(_, _)
SeqCompare(a, b) ==
  IF a = <<>> /\ b = <<>> THEN 0
  ELSE IF a = <<>> THEN -1
  ELSE IF b = <<>> THEN 1
  ELSE IF Head(a) < Head(b) THEN -1
  ELSE IF Head(a) > Head(b) THEN 1
  ELSE SeqCompare(Tail(a), Tail(b))

\* Comparison by UTF-16 code units (what a < b does on strings).
CodeUnitCompare(a, b) ==
  SeqCompare([i \in 1..Len(a) |-> CodeUnit(a[i])],
             [i \in 1..Len(b) |-> CodeUnit(b[i])])

\* String.prototype.localeCompare: the collation compares the letters first
\* without regard to case (punctuation before letters), and only when the
\* strings agree there, case, lower case before upper case.
LocaleCompare(a, b) ==
  LET primary(s) == [i \in 1..Len(s) |-> CodeUnit(LowerChar(s[i]))]
      tertiary(s) == [i \in 1..Len(s) |-> IF IsUpper(s[i]) THEN 1 ELSE 0]
      p == SeqCompare(primary(a), primary(b))
  IN IF p # 0 THEN p ELSE SeqCompare(tertiary(a), tertiary(b))

\* ----------------------------------------------------------------- paths
\* path.join of a directory path and one more segment.
PathJoin(dir, name) == dir \o <<Sep>> \o name

\* path.relative(rootDir, fullPath) for a fullPath strictly below rootDir.
PathRelative(rootDir, fullPath) ==
  SubSeq(fullPath, Len(rootDir) + 2, Len(fullPath))

\* path.dirname of a relative path: "." when it has a single segment.
PathDirname(p) ==
  LET seps == {i \in 1..Len(p) : p[i] = Sep}
  IN IF seps = {} THEN Dot
     ELSE SubSeq(p, 1, (CHOOSE i \in seps : \A j \in seps : j <= i) - 1)

\* String.prototype.split(path.sep): the segments of a path.
RECURSIVE Split(_)
Split(p) ==
  LET seps == {i \in 1..Len(p) : p[i] = Sep}
  IN IF seps = {} THEN <<p>>
     ELSE LET i == CHOOSE k \in seps : \A j \in seps : k <= j
          IN <<SubSeq(p, 1, i - 1)>> \o Split(SubSeq(p, i + 1, Len(p)))

\* ----------------------------------------------------------- file system
\* The absolute path of the scan root (path.resolve(args[0])).
RootDir == <<Sep, "x">>

DirNames == {<<"B">>, <<"a">>, <<"a", "b">>}
FileNames == {<<"B", ".", "m", "d">>, <<"a", ".", "M", "D">>,
              <<"n", ".", "t", "x", "t">>}
\* Names of dirents that are neither directories nor regular files.
OtherNames == {<<"d", ".", "m", "d">>}

\* Number of segments of an absolute path below the scan root.
DepthOf(dirPath) ==
  Cardinality({i \in (Len(RootDir) + 1)..Len(dirPath) : dirPath[i] = Sep})

DirPathsOf(t) ==
  {RootDir} \cup {PathJoin(p.parent, p.name) : p \in {q \in t : q.kind = "dir"}}

\* The dirents that can be added to snapshot t: a file or a directory in a
\* directory of t, directories nested at most MaxDepth deep.  A dirent is a
\* record of its parent directory, its name and its type.
Candidates(t) ==
  UNION {{[parent |-> d, name |-> n, kind |-> "file"] : n \in FileNames}
           \cup {[parent |-> d, name |-> n, kind |-> "other"] : n \in OtherNames}
           \cup (IF DepthOf(d) < MaxDepth
                 THEN {[parent |-> d, name |-> n, kind |-> "dir"] : n \in DirNames}
                 ELSE {})
           : d \in DirPathsOf(t)} \ t

RootKinds == {"dir", "file", "missing", "noaccess"}

VARIABLES
  argc,        \* process.argv.slice(2).length
  rootKind,    \* what fs.stat finds at the root path
  tree,        \* the dirents below the root
  unlistable,  \* the directories whose fs.readdir throws
  pc,          \* position of run()
  exitCode,    \* -1 while running, then the process's exit status
  fileInfos,   \* result of findMarkdownRecursive
  idx,         \* position of the for loop over fileInfos
  outputContent,             \* the fragments pushed so far
  lastProcessedDirRelative,  \* tracker of the last directory header
  lastHistory, \* every value lastProcessedDirRelative has held, in order
  readFailed,  \* fullPath of the documents whose fs.readFile threw
  writeCalls,  \* how often fs.writeFile was called
  writes       \* what fs.writeFile wrote successfully: file name and data

vars == <<argc, rootKind, tree, unlistable, pc, exitCode, fileInfos, idx,
          outputContent, lastProcessedDirRelative, lastHistory, readFailed,
          writeCalls, writes>>


\* ---------------------------------------------------------------- scanner
\* fs.readdir(dirPath, { withFileTypes: true }): the dirents of a directory.
Readdir(dirPath) ==
  {[name |-> c.name, kind |-> c.kind] : c \in {n \in tree : n.parent = dirPath}}

IsDirectory(dirent) == dirent.kind = "dir"
IsFile(dirent) == dirent.kind = "file"

\* Faulty variant of the comparator: files before directories.
DirentCompareFilesFirst(a, b) ==
  IF IsDirectory(a) /\ ~IsDirectory(b) THEN 1
  ELSE IF ~IsDirectory(a) /\ IsDirectory(b) THEN -1
  ELSE LocaleCompare(a.name, b.name)

\* Faulty variant of the comparator: names compared by code unit (a.name < b.name).
DirentCompareCodeUnit(a, b) ==
  IF IsDirectory(a) /\ ~IsDirectory(b) THEN -1
  ELSE IF ~IsDirectory(a) /\ IsDirectory(b) THEN 1
  ELSE CodeUnitCompare(a.name, b.name)

\* The comparator of dirents.sort: directories first, then by localeCompare.
DirentCompare(a, b) ==
  IF IsDirectory(a) /\ ~IsDirectory(b) THEN -1
  ELSE IF ~IsDirectory(a) /\ IsDirectory(b) THEN 1
  ELSE LocaleCompare(a.name, b.name)

\* Array.prototype.sort with DirentCompare: ascending.
RECURSIVE SortDirents(_)
SortDirents(S) ==
  IF S = {} THEN <<>>
  ELSE LET first == CHOOSE a \in S : \A b \in S \ {a} : DirentCompare(a, b) < 0
       IN <<first>> \o SortDirents(S \ {first})

\* dirent.name.toLowerCase().endsWith(".md")
IsMarkdown(name) == EndsWith(ToLowerCase(name), MdExt)

FileInfo(fullPath, relativePath, isDirectory, name) ==
  [fullPath |-> fullPath, relativePath |-> relativePath,
   isDirectory |-> isDirectory, name |-> name]

\* Faulty variant: the directory's own entry is pushed after the recursion.
SubtreeThenEntry(info, subResults) == subResults \o <<info>>

\* results.push(directory info); results = results.concat(subResults)
EntryWithSubtree(info, subResults) == <<info>> \o subResults

RECURSIVE FindMarkdownRecursive(_, _)
RECURSIVE LoopDirents(_, _, _)

\* One iteration of the loop over the sorted dirents: what it appends.
VisitDirent(dirent, dirPath, rootDir) ==
  LET fullPath == PathJoin(dirPath, dirent.name)
      relativePath == PathRelative(rootDir, fullPath)
  IN IF IsDirectory(dirent)
     THEN EntryWithSubtree(FileInfo(fullPath, relativePath, TRUE, dirent.name),
                           FindMarkdownRecursive(fullPath, rootDir))
     ELSE IF IsFile(dirent) /\ IsMarkdown(dirent.name)
     THEN <<FileInfo(fullPath, relativePath, FALSE, dirent.name)>>
     ELSE <<>>

LoopDirents(dirents, dirPath, rootDir) ==
  IF dirents = <<>> THEN <<>>
  ELSE VisitDirent(Head(dirents), dirPath, rootDir)
         \o LoopDirents(Tail(dirents), dirPath, rootDir)

FindMarkdownRecursive(dirPath, rootDir) ==
  LoopDirents(SortDirents(Readdir(dirPath)), dirPath, rootDir)

\* Whether findMarkdownRecursive(dirPath, ...) rejects: its own fs.readdir
\* throws, or the recursion into one of its subdirectories does.
RECURSIVE ScanThrows(_)
ScanThrows(dirPath) ==
  \/ dirPath \in unlistable
  \/ \E d \in Readdir(dirPath) :
       IsDirectory(d) /\ ScanThrows(PathJoin(dirPath, d.name))

\* -------------------------------------------------------------- assembler
Fragment(t, arg) == [t |-> t, arg |-> arg]

\* Faulty variant: a Directory entry sets the tracker but pushes no header.
DirectoryEntryNoHeader(info, last) ==
  [push |-> <<>>, last |-> info.relativePath]

\* Faulty variant: a Directory entry pushes its header but leaves the tracker alone.
DirectoryEntryHeaderNoTrack(info, last) ==
  [push |-> <<Fragment(DIR_HEADER_PREFIX, info.relativePath)>>, last |-> last]

\* Lines 105-108: the header of a Directory entry, and the tracker after it.
DirectoryEntryHeader(info, last) ==
  [push |-> <<Fragment(DIR_HEADER_PREFIX, info.relativePath)>>,
   last |-> info.relativePath]

\* Faulty variant: a prefix gets a header unless the tracker equals it.
RECURSIVE InferredHeadersExact(_, _, _)
InferredHeadersExact(parts, cumulativePath, last) ==
  IF parts = <<>> THEN <<>>
  ELSE LET next == IF cumulativePath # <<>>
                   THEN PathJoin(cumulativePath, Head(parts))
                   ELSE Head(parts)
       IN (IF last # next
           THEN <<Fragment(DIR_HEADER_PREFIX, next)>> ELSE <<>>)
          \o InferredHeadersExact(Tail(parts), next, last)

\* Lines 120-130: the headers pushed for the cumulative prefixes of a
\* document's directory that the tracker does not start with.
RECURSIVE InferredHeaders(_, _, _)
InferredHeaders(parts, cumulativePath, last) ==
  IF parts = <<>> THEN <<>>
  ELSE LET next == IF cumulativePath # <<>>
                   THEN PathJoin(cumulativePath, Head(parts))
                   ELSE Head(parts)
       IN (IF ~StartsWith(last, next)
           THEN <<Fragment(DIR_HEADER_PREFIX, next)>> ELSE <<>>)
          \o InferredHeaders(Tail(parts), next, last)

\* Faulty variant: the test against "." is missing.
NeedsInferenceNoRootCheck(currentDirRelative, last) ==
  currentDirRelative # last

\* Whether the else-if branch of lines 109-113 is taken for a Document entry.
NeedsInference(currentDirRelative, last) ==
  /\ currentDirRelative # last
  /\ currentDirRelative # Dot

\* Lines 114-131: the reconciliation branch.
DocumentEntryHeader(currentDirRelative, last) ==
  [push |-> InferredHeaders(Split(currentDirRelative), <<>>, last),
   last |-> currentDirRelative]

\* Lines 101-132: the header part of one loop iteration.
HeaderStep(info, last) ==
  LET currentDirRelative == PathDirname(info.relativePath)
  IN IF info.isDirectory /\ info.relativePath # last
     THEN DirectoryEntryHeader(info, last)
     ELSE IF ~info.isDirectory /\ NeedsInference(currentDirRelative, last)
     THEN DocumentEntryHeader(currentDirRelative, last)
     ELSE [push |-> <<>>, last |-> last]

\* Faulty variant: the placeholder of an unreadable document has no separator.
ReadFragmentsNoSeparator(info, readOk) ==
  IF readOk
  THEN <<Fragment(CONTENT, info.fullPath), Fragment(SEPARATOR, <<>>)>>
  ELSE <<Fragment(ERROR_READING, info.name)>>

\* Lines 139-149: what the read of a document pushes.  The fragment pushed
\* on failure is the placeholder text followed by the separator text.
ReadFragments(info, readOk) ==
  IF readOk
  THEN <<Fragment(CONTENT, info.fullPath), Fragment(SEPARATOR, <<>>)>>
  ELSE <<Fragment(ERROR_READING, info.name), Fragment(SEPARATOR, <<>>)>>

\* Lines 134-150: the file header and the body of a Document entry.
DocumentFragments(info, readOk) ==
  <<Fragment(FILE_HEADER_PREFIX, info.name)>> \o ReadFragments(info, readOk)

\* ------------------------------------------------------------------- run
\* The process starts with its arguments given and the root path being
\* whatever it is; the snapshot below a root directory is built by
\* CreateDirent before run() starts.
Init ==
  /\ argc \in 0..MaxArgs
  /\ rootKind \in (IF argc = 1 THEN RootKinds ELSE {"dir"})
  /\ tree = {}
  /\ unlistable = {}
  /\ pc = "fs"
  /\ exitCode = -1
  /\ fileInfos = <<>>
  /\ idx = 1
  /\ outputContent = <<>>
  /\ lastProcessedDirRelative = Dot
  /\ lastHistory = <<Dot>>
  /\ readFailed = {}
  /\ writeCalls = 0
  /\ writes = <<>>

env == <<argc, rootKind, tree, unlistable>>
loop == <<fileInfos, idx, outputContent, lastProcessedDirRelative,
          lastHistory, readFailed>>
out == <<writeCalls, writes>>

\* The file system before the run: one more dirent below the root directory
\* (only a run that gets to the scan ever looks at it).
CreateDirent ==
  /\ pc = "fs"
  /\ argc = 1
  /\ rootKind = "dir"
  /\ Cardinality(tree) < MaxNodes
  /\ \E c \in Candidates(tree) : tree' = tree \cup {c}
  /\ UNCHANGED <<argc, rootKind, unlistable, pc, exitCode, loop, out>>

\* The process is started: run() is called (line 168).  At most one
\* directory of the snapshot is one that fs.readdir cannot list.
Launch ==
  /\ pc = "fs"
  /\ \E u \in {{}} \cup {{d} : d \in DirPathsOf(tree)} : unlistable' = u
  /\ pc' = "args"
  /\ UNCHANGED <<argc, rootKind, tree, exitCode, loop, out>>

\* process.exit(code)
Exit(code) == pc' = "exited" /\ exitCode' = code

\* Faulty variant: the usage error is reported but the run goes on.
UsageErrorFallsThrough ==
  /\ pc = "args"
  /\ argc # 1
  /\ pc' = "stat"
  /\ UNCHANGED <<exitCode, env, loop, out>>

\* Lines 70-73.
UsageError ==
  /\ pc = "args"
  /\ argc # 1
  /\ Exit(1)
  /\ UNCHANGED <<env, loop, out>>

ArgsOk ==
  /\ pc = "args"
  /\ argc = 1
  /\ pc' = "stat"
  /\ UNCHANGED <<exitCode, env, loop, out>>

\* Lines 77-82: fs.stat succeeds.
StatOk ==
  /\ pc = "stat"
  /\ rootKind = "dir"
  /\ pc' = "scan"
  /\ UNCHANGED <<exitCode, env, loop, out>>

StatNotDirectory ==
  /\ pc = "stat"
  /\ rootKind = "file"
  /\ Exit(1)
  /\ UNCHANGED <<env, loop, out>>

\* Lines 83-90: fs.stat throws (ENOENT or another error).
StatThrows ==
  /\ pc = "stat"
  /\ rootKind \in {"missing", "noaccess"}
  /\ Exit(1)
  /\ UNCHANGED <<env, loop, out>>

\* Line 95, then lines 97-98.
ScanOk ==
  /\ pc = "scan"
  /\ ~ScanThrows(RootDir)
  /\ fileInfos' = FindMarkdownRecursive(RootDir, RootDir)
  /\ pc' = "loop"
  /\ UNCHANGED <<exitCode, env, idx, outputContent, lastProcessedDirRelative,
                 lastHistory, readFailed, out>>

\* Line 95 rejects: the catch of lines 161-164.
ScanFails ==
  /\ pc = "scan"
  /\ ScanThrows(RootDir)
  /\ Exit(1)
  /\ UNCHANGED <<env, loop, out>>

Track(last) ==
  IF last = lastProcessedDirRelative THEN lastHistory
  ELSE Append(lastHistory, last)

\* One iteration of the loop of lines 100-151 on a Directory entry.
ProcessDirectory ==
  /\ pc = "loop"
  /\ idx <= Len(fileInfos)
  /\ fileInfos[idx].isDirectory
  /\ LET step == HeaderStep(fileInfos[idx], lastProcessedDirRelative)
     IN /\ outputContent' = outputContent \o step.push
        /\ lastProcessedDirRelative' = step.last
        /\ lastHistory' = Track(step.last)
  /\ idx' = idx + 1
  /\ UNCHANGED <<pc, exitCode, env, fileInfos, readFailed, out>>

\* One iteration of the loop of lines 100-151 on a Document entry; the read
\* of the document succeeds or throws.
ProcessDocument ==
  /\ pc = "loop"
  /\ idx <= Len(fileInfos)
  /\ ~fileInfos[idx].isDirectory
  /\ \E readOk \in BOOLEAN :
       LET info == fileInfos[idx]
           step == HeaderStep(info, lastProcessedDirRelative)
       IN /\ outputContent' =
               outputContent \o step.push \o DocumentFragments(info, readOk)
          /\ lastProcessedDirRelative' = step.last
          /\ lastHistory' = Track(step.last)
          /\ readFailed' =
               IF readOk THEN readFailed ELSE readFailed \cup {info.fullPath}
  /\ idx' = idx + 1
  /\ UNCHANGED <<pc, exitCode, env, fileInfos, out>>

\* Lines 153-160: the loop is over; fs.writeFile succeeds.
WriteOk ==
  /\ pc = "loop"
  /\ idx > Len(fileInfos)
  /\ writeCalls' = writeCalls + 1
  /\ writes' = Append(writes, [file |-> OUTPUT_FILENAME, data |-> outputContent])
  /\ Exit(0)
  /\ UNCHANGED <<env, loop>>

\* Line 156 throws: the catch of lines 161-164.
WriteFails ==
  /\ pc = "loop"
  /\ idx > Len(fileInfos)
  /\ writeCalls' = writeCalls + 1
  /\ Exit(1)
  /\ UNCHANGED <<env, loop, writes>>

Next ==
  \/ CreateDirent
  \/ Launch
  \/ UsageError
  \/ ArgsOk
  \/ StatOk
  \/ StatNotDirectory
  \/ StatThrows
  \/ ScanOk
  \/ ScanFails
  \/ ProcessDirectory
  \/ ProcessDocument
  \/ WriteOk
  \/ WriteFails

Spec == Init /\ [][Next]_vars


\* ------------------------------------------------- vocabulary of the claims
\* The scan has completed and the assembling pass runs or has run.
ScanDone == pc = "loop" \/ (pc = "exited" /\ writeCalls = 1)

\* The assembling pass has consumed every entry.
PassOver == ScanDone /\ idx > Len(fileInfos)

RelOf(n) == PathRelative(RootDir, PathJoin(n.parent, n.name))

\* rel lies in the subtree of the directory dirRel (segment-wise).
Under(rel, dirRel) == StartsWith(rel, dirRel \o <<Sep>>)

TreeDirs == {n \in tree : n.kind = "dir"}
QualifyingDocs == {n \in tree : n.kind = "file" /\ IsMarkdown(n.name)}

\* The directories whose subtree holds at least one qualifying document.
DirsWithDocs ==
  {d \in TreeDirs : \E q \in QualifyingDocs : Under(RelOf(q), RelOf(d))}

DocIndexes == {e \in 1..Len(fileInfos) : ~fileInfos[e].isDirectory}
DirIndexes == {e \in 1..Len(fileInfos) : fileInfos[e].isDirectory}

\* Positions of the output fragments of one sort.
PositionsOf(t) == {i \in 1..Len(outputContent) : outputContent[i].t = t}

DirHeaderPositions(rel) ==
  {i \in PositionsOf(DIR_HEADER_PREFIX) : outputContent[i].arg = rel}

\* The loop pushes one file header per Document entry, in the order of the
\* entries: the k-th Document entry owns the k-th file header.
Rank(e) == Cardinality({j \in DocIndexes : j <= e})

HasFileHeader(k) == k >= 1 /\ Cardinality(PositionsOf(FILE_HEADER_PREFIX)) >= k

FileHeaderPos(k) ==
  CHOOSE p \in PositionsOf(FILE_HEADER_PREFIX) :
    Cardinality({q \in PositionsOf(FILE_HEADER_PREFIX) : q < p}) = k - 1

\* The file header of Document entry e lies after position h.
FileHeaderAfter(e, h) ==
  HasFileHeader(Rank(e)) /\ h < FileHeaderPos(Rank(e))

\* C1: once the pass is over, every directory whose subtree holds a
\* qualifying document has exactly one directory header in the output; that
\* header precedes the file header of every document of its subtree, and the
\* header of an ancestor directory precedes the header of its descendant.
C1_HeadersOnceAndBefore ==
  PassOver =>
    \A d \in DirsWithDocs :
      /\ Cardinality(DirHeaderPositions(RelOf(d))) = 1
      /\ \A h \in DirHeaderPositions(RelOf(d)) :
           /\ \A q \in QualifyingDocs :
                Under(RelOf(q), RelOf(d)) =>
                  \E e \in DocIndexes :
                    /\ fileInfos[e].relativePath = RelOf(q)
                    /\ FileHeaderAfter(e, h)
           /\ \A d2 \in DirsWithDocs :
                Under(RelOf(d2), RelOf(d)) =>
                  \A h2 \in DirHeaderPositions(RelOf(d2)) : h < h2

\* The case x/y/z.md of C1: a document two directories deep, a second
\* document directly in the outer directory, the pass over.
C1_Witness ==
  /\ PassOver
  /\ \E d \in DirsWithDocs, d2 \in DirsWithDocs :
       /\ Under(RelOf(d2), RelOf(d))
       /\ \E q \in QualifyingDocs : PathJoin(d.parent, d.name) = q.parent
       /\ \E q \in QualifyingDocs : PathJoin(d2.parent, d2.name) = q.parent

RootDocIndexes ==
  {e \in DocIndexes : PathDirname(fileInfos[e].relativePath) = Dot}

\* C2 as stated: when the root holds qualifying documents and
\* subdirectories, the blocks of the root's documents come before the first
\* directory header.
C2_RootDocsFirst ==
  PassOver =>
    \A e \in RootDocIndexes :
      \A h \in PositionsOf(DIR_HEADER_PREFIX) :
        HasFileHeader(Rank(e)) /\ FileHeaderPos(Rank(e)) < h

\* The scenario of C2: root {a.MD, a/B.md}.
ScenarioTree ==
  {[parent |-> RootDir, name |-> <<"a">>, kind |-> "dir"],
   [parent |-> RootDir, name |-> <<"a", ".", "M", "D">>, kind |-> "file"],
   [parent |-> PathJoin(RootDir, <<"a">>), name |-> <<"B", ".", "m", "d">>,
    kind |-> "file"]}

ScenarioOutput ==
  <<Fragment(DIR_HEADER_PREFIX, <<"a">>),
    Fragment(FILE_HEADER_PREFIX, <<"B", ".", "m", "d">>),
    Fragment(CONTENT, PathJoin(PathJoin(RootDir, <<"a">>), <<"B", ".", "m", "d">>)),
    Fragment(SEPARATOR, <<>>),
    Fragment(FILE_HEADER_PREFIX, <<"a", ".", "M", "D">>),
    Fragment(CONTENT, PathJoin(RootDir, <<"a", ".", "M", "D">>)),
    Fragment(SEPARATOR, <<>>)>>

\* C2 amended: the blocks of the root's documents come after every directory
\* header and after the block of every document of a subdirectory; for root
\* {a.MD, a/B.md} the output is directory header a, file header B.md, body,
\* separator, then file header a.MD, body, separator.
C2_RootDocsLast ==
  PassOver =>
    /\ \A e \in RootDocIndexes :
         /\ \A h \in PositionsOf(DIR_HEADER_PREFIX) : FileHeaderAfter(e, h)
         /\ \A e2 \in DocIndexes \ RootDocIndexes :
              /\ HasFileHeader(Rank(e2))
              /\ FileHeaderAfter(e, FileHeaderPos(Rank(e2)) + 2)
    /\ (tree = ScenarioTree /\ readFailed = {}) => outputContent = ScenarioOutput

C2_Witness ==
  /\ pc = "exited"
  /\ PassOver
  /\ tree = ScenarioTree
  /\ readFailed = {}
  /\ writes = <<[file |-> OUTPUT_FILENAME, data |-> ScenarioOutput]>>

\* The nearest directory header before position p names the directory rel.
NearestHeaderIs(p, rel) ==
  LET hs == {h \in PositionsOf(DIR_HEADER_PREFIX) : h < p}
  IN /\ hs # {}
     /\ outputContent[CHOOSE h \in hs : \A g \in hs : g <= h].arg = rel

ProcessedDocs == {e \in DocIndexes : e < idx}

\* The fragment the read of Document entry e has pushed.
BodyOf(e) ==
  IF fileInfos[e].fullPath \in readFailed
  THEN Fragment(ERROR_READING, fileInfos[e].name)
  ELSE Fragment(CONTENT, fileInfos[e].fullPath)

\* C4: every Document entry the pass has consumed, read or unreadable, has
\* in the output exactly one file header, immediately followed by its body
\* (the content, or the placeholder naming the file) and by one separator;
\* and a run in which a read failed still consumes every entry.
C4_HeaderBodySeparator ==
  /\ ScanDone =>
       /\ Cardinality(PositionsOf(FILE_HEADER_PREFIX)) = Cardinality(ProcessedDocs)
       /\ Cardinality(PositionsOf(SEPARATOR)) = Cardinality(ProcessedDocs)
       /\ Cardinality(PositionsOf(CONTENT) \cup PositionsOf(ERROR_READING))
            = Cardinality(ProcessedDocs)
       /\ \A e \in ProcessedDocs :
            LET p == FileHeaderPos(Rank(e))
            IN /\ p + 2 <= Len(outputContent)
               /\ outputContent[p] = Fragment(FILE_HEADER_PREFIX, fileInfos[e].name)
               /\ outputContent[p + 1] = BodyOf(e)
               /\ outputContent[p + 2] = Fragment(SEPARATOR, <<>>)
  /\ (pc = "exited" /\ readFailed # {}) =>
       /\ writeCalls = 1
       /\ ProcessedDocs = DocIndexes

\* A run that has ended with an unreadable document followed by a readable
\* one.
C4_Witness ==
  /\ pc = "exited"
  /\ \E e1 \in DocIndexes, e2 \in DocIndexes :
       /\ e1 < e2
       /\ fileInfos[e1].fullPath \in readFailed
       /\ fileInfos[e2].fullPath \notin readFailed
       /\ FileHeaderPos(Rank(e2)) = FileHeaderPos(Rank(e1)) + 3

HasEntry(d) ==
  Cardinality({e \in DirIndexes : fileInfos[e].relativePath = RelOf(d)}) = 1

NothingFrom(d) ==
  /\ \A e \in DocIndexes : ~Under(fileInfos[e].relativePath, RelOf(d))
  /\ \A i \in PositionsOf(CONTENT) :
       ~Under(PathRelative(RootDir, outputContent[i].arg), RelOf(d))
  /\ Cardinality(PositionsOf(FILE_HEADER_PREFIX)) = Cardinality(DocIndexes)

\* C5 as stated: a directory whose subtree holds no qualifying document is
\* an entry of the scan but contributes no directory header, no file header
\* and no body.
C5_NoHeaderForBarrenDir ==
  PassOver =>
    \A d \in TreeDirs \ DirsWithDocs :
      /\ HasEntry(d)
      /\ DirHeaderPositions(RelOf(d)) = {}
      /\ NothingFrom(d)

\* C5 amended: such a directory is an entry of the scan and contributes
\* exactly one directory header, but no file header and no body.
C5_OneHeaderForBarrenDir ==
  PassOver =>
    \A d \in TreeDirs \ DirsWithDocs :
      /\ HasEntry(d)
      /\ Cardinality(DirHeaderPositions(RelOf(d))) = 1
      /\ NothingFrom(d)

\* The pass is over a snapshot with an empty directory and a directory that
\* holds only a non-qualifying file.
C5_Witness ==
  /\ PassOver
  /\ \E d \in TreeDirs : Readdir(PathJoin(d.parent, d.name)) = {}
  /\ \E d \in TreeDirs \ DirsWithDocs :
       \E n \in tree : n.parent = PathJoin(d.parent, d.name) /\ n.kind = "file"

Siblings(i, j) ==
  /\ i < j
  /\ PathDirname(fileInfos[i].relativePath) = PathDirname(fileInfos[j].relativePath)

\* C6 as stated: siblings are ordered directories first, and within a kind
\* by case-sensitive (code unit) comparison of the names, "B" before "a".
C6_CaseSensitiveOrder ==
  ScanDone =>
    \A i \in 1..Len(fileInfos), j \in 1..Len(fileInfos) :
      Siblings(i, j) =>
        \/ fileInfos[i].isDirectory /\ ~fileInfos[j].isDirectory
        \/ /\ fileInfos[i].isDirectory = fileInfos[j].isDirectory
           /\ CodeUnitCompare(fileInfos[i].name, fileInfos[j].name) < 0

\* C6 amended: siblings are ordered directories first, and within a kind by
\* localeCompare of the names, under which "a" comes before "B".
C6_LocaleOrder ==
  ScanDone =>
    \A i \in 1..Len(fileInfos), j \in 1..Len(fileInfos) :
      Siblings(i, j) =>
        \/ fileInfos[i].isDirectory /\ ~fileInfos[j].isDirectory
        \/ /\ fileInfos[i].isDirectory = fileInfos[j].isDirectory
           /\ LocaleCompare(fileInfos[i].name, fileInfos[j].name) < 0

\* Two sibling directories "a" and "B" have been scanned, "a" first.
C6_Witness ==
  /\ ScanDone
  /\ \E i \in DirIndexes, j \in DirIndexes :
       /\ Siblings(i, j)
       /\ fileInfos[i].name = <<"a">>
       /\ fileInfos[j].name = <<"B">>

\* What the scan must list below the directory dirRel.
ExpectedBelow(dirRel) ==
  {RelOf(n) : n \in {m \in TreeDirs \cup QualifyingDocs : Under(RelOf(m), dirRel)}}

\* C7: the entry list is a pre-order traversal: the descendants of a
\* Directory entry are exactly the entries of one block that starts right
\* after it, and the scan root is never an entry.
C7_PreOrder ==
  ScanDone =>
    /\ \A i \in DirIndexes :
         LET below == {j \in 1..Len(fileInfos) :
                         Under(fileInfos[j].relativePath, fileInfos[i].relativePath)}
         IN /\ below = (i + 1)..(i + Cardinality(below))
            /\ {fileInfos[j].relativePath : j \in below}
                 = ExpectedBelow(fileInfos[i].relativePath)
    /\ \A i \in 1..Len(fileInfos) :
         /\ fileInfos[i].relativePath \notin {<<>>, Dot}
         /\ fileInfos[i].fullPath # RootDir

\* A directory with a subdirectory and a document below it is followed by a
\* later sibling.
C7_Witness ==
  /\ ScanDone
  /\ \E i \in DirIndexes, j \in 1..Len(fileInfos), k \in DocIndexes :
       /\ Siblings(i, j)
       /\ i + 2 < j
       /\ Under(fileInfos[k].relativePath, fileInfos[i].relativePath)
       /\ PathDirname(fileInfos[k].relativePath) # fileInfos[i].relativePath

\* C8: fs.writeFile is called at most once, and a run ends having called it
\* exactly when one argument was given, the root is a directory and no
\* listing failed; otherwise the run ends with status 1 and nothing written.
\* Unreadable documents play no part: the status is 0 exactly when the write
\* went through.
C8_WriteOnceIffScanned ==
  /\ writeCalls <= 1
  /\ Len(writes) <= writeCalls
  /\ pc # "exited" => writeCalls = 0
  /\ pc = "exited" =>
       /\ writeCalls = 1 <=>
            (argc = 1 /\ rootKind = "dir" /\ ~ScanThrows(RootDir))
       /\ writeCalls = 0 => (exitCode = 1 /\ writes = <<>>)
       /\ exitCode = 0 <=> Len(writes) = 1
       /\ exitCode \in {0, 1}

\* A run with an unreadable document that wrote the output and ended with
\* status 0.
C8_Witness ==
  /\ pc = "exited"
  /\ exitCode = 0
  /\ readFailed # {}
  /\ writes = <<[file |-> OUTPUT_FILENAME, data |-> outputContent]>>

\* C9 as stated: the tracker never returns to a value it held earlier.
C9_NeverReturns ==
  \A i \in 1..Len(lastHistory), j \in 1..Len(lastHistory) :
    i < j => lastHistory[i] # lastHistory[j]

\* C9 amended: the tracker starts at the root sentinel "." and is never
\* reset to it once it has left it (it can be rolled back to a directory
\* headered earlier).
C9_NeverResetToRoot ==
  /\ lastHistory[1] = Dot
  /\ lastProcessedDirRelative = lastHistory[Len(lastHistory)]
  /\ \A i \in 2..Len(lastHistory) : lastHistory[i] # Dot

\* The tracker has been rolled back to a directory it held before, after a
\* root-level document was consumed too.
C9_Witness ==
  /\ PassOver
  /\ RootDocIndexes # {}
  /\ \E i \in 1..Len(lastHistory) :
       /\ i + 1 < Len(lastHistory)
       /\ lastHistory[i] = lastProcessedDirRelative

\* The cumulative prefixes the reconciliation branch reconstructs.
AncestorPrefixes(dirRel) ==
  {SubSeq(dirRel, 1, i - 1) : i \in {k \in 1..Len(dirRel) : dirRel[k] = Sep}}
    \cup {dirRel}

\* The loop is about to take the reconciliation branch.
AtReconciliation ==
  /\ pc = "loop"
  /\ idx <= Len(fileInfos)
  /\ ~fileInfos[idx].isDirectory
  /\ NeedsInference(PathDirname(fileInfos[idx].relativePath),
                    lastProcessedDirRelative)

\* C10: whenever the reconciliation branch is taken, the tracker starts with
\* every ancestor prefix of the document's directory, the branch pushes no
\* header, and every directory header of the output was pushed for a
\* Directory entry.
C10_BranchPushesNothing ==
  /\ AtReconciliation =>
       LET dir == PathDirname(fileInfos[idx].relativePath)
       IN /\ \A a \in AncestorPrefixes(dir) :
               StartsWith(lastProcessedDirRelative, a)
          /\ DocumentEntryHeader(dir, lastProcessedDirRelative).push = <<>>
  /\ ScanDone =>
       Cardinality(PositionsOf(DIR_HEADER_PREFIX))
         = Cardinality({e \in DirIndexes : e < idx})

\* The branch is about to be taken for a document two directories deep.
C10_Witness ==
  /\ AtReconciliation
  /\ Cardinality(AncestorPrefixes(PathDirname(fileInfos[idx].relativePath))) = 2

====
